---- MODULE Spec2Model ----
(***************************************************************************)
(* Model of the cancer_data processing pipeline:                           *)
(*   - the schema-driven runner of src/cancer_data/process.py (__main__)   *)
(*     with check_dependencies, and                                        *)
(*   - the mutation-matrix processors depmap_damaging / depmap_hotspot of  *)
(*     src/cancer_data/processors/depmap.py.                               *)
(* Python strings are sequences of one-character tokens, so that split(),  *)
(* path formatting and concatenation are computed, not assumed.            *)
(***************************************************************************)
EXTENDS Integers, Sequences, FiniteSets, TLC

VARIABLES
    SCHEMA,      \* the schema table, a sequence of rows (config.SCHEMA)
    Processors,  \* the ids for which the Processors class has a function
    store,       \* the processed store: path -> number of times written
    run,         \* which run of the script this is
    i,           \* rows iterrows() has handed out in this run
    raised,      \* the exception that left the loop, "none" if none
    log,         \* history: one record per loop pass, over all runs
    left,        \* history: the store as the previous run left it
    df,          \* the table Datasets.load("depmap_mutations") returns
    processor,   \* the mutation-matrix processor that was called, or "none"
    mut_mat,     \* the matrix that processor returned
    annotations, \* a processed dependency table: rows of the two map columns
    labels,      \* the labels of the axis a transform is about to relabel
    relabelled   \* the transform that relabelled the axis and its new labels

runner_vars == <<SCHEMA, Processors, store, run, i, raised, log, left>>
matrix_vars == <<df, processor, mut_mat>>
remap_vars == <<annotations, labels, relabelled>>
vars == <<runner_vars, matrix_vars, remap_vars>>

(* ---------------- bounds of the model ---------------- *)

\* longest schema (number of descriptors) explored
MaxSchemaLen == 2

\* number of consecutive runs of the pipeline over the same store
MaxRuns == 2

\* most rows of a mutation table explored
MaxRows == 8

\* most rows of a dependency table a lookup map is built from
MaxAnnotations == 2

\* most labels on a relabelled axis
MaxLabels == 2

(* ---------------- values ---------------- *)

\* dataset ids of the schema, as Python strings
Ids == {<<"a">>, <<"b">>}

\* the "type" column of the schema; the last one is no dataset to materialize
Types == {"primary_dataset", "secondary_dataset", "reference"}

\* the "dependencies" cell of a schema row: None, NaN (empty cell) or a str
None == [kind |-> "None", s |-> <<>>]
NaN == [kind |-> "NaN", s |-> <<>>]
Str(s) == [kind |-> "str", s |-> s]

DependencyCells ==
    {None, NaN, Str(<<>>), Str(<<"a">>), Str(<<"b">>), Str(<<"a", ",", "b">>)}

\* The schema rows explored.  A primary dataset carries an empty cell (NaN)
\* or any of the strings; a secondary dataset, which takes the same branch of
\* the runner, carries None; a row that is no dataset an empty cell.
Rows ==
    {r \in [id : Ids, type : Types, dependencies : DependencyCells] :
        \/ r.type = "primary_dataset" /\ r.dependencies # None
        \/ r.type = "secondary_dataset" /\ r.dependencies = None
        \/ r.type = "reference" /\ r.dependencies = NaN}

RECURSIVE SeqsUpTo(_, _)
SeqsUpTo(S, n) ==
    IF n = 0 THEN {<<>>}
    ELSE LET shorter == SeqsUpTo(S, n - 1)
         IN shorter \cup {Append(q, x) : q \in {p \in shorter : Len(p) = n - 1}, x \in S}

(* ---------------- the processed store ---------------- *)

PROCESSED_DIR == <<"processed">>

\* f"{PROCESSED_DIR}/{d}.h5"
h5_path(d) == PROCESSED_DIR \o <<"/">> \o d \o <<".h5">>

\* every path the runner can probe or write
Paths == {h5_path(d) : d \in Ids \cup {<<>>}}

\* utils.file_exists: the store maps a path to the number of times it was
\* written (0: no such file; a file found at start counts as written once)
file_exists(st, path) == path \in DOMAIN st /\ st[path] > 0

\* utils.export_hdf(output_id, df): persist the table under the dataset id
export_hdf(st, output_id) ==
    [st EXCEPT ![h5_path(output_id)] = @ + 1]

(* ---------------- check_dependencies ---------------- *)

\* str.split(sep): the pieces between separators, [""] for the empty string
RECURSIVE split(_, _)
split(s, sep) ==
    IF \E k \in 1..Len(s) : s[k] = sep
    THEN LET k == CHOOSE k \in 1..Len(s) :
                      s[k] = sep /\ \A j \in 1..(k - 1) : s[j] # sep
         IN <<SubSeq(s, 1, k - 1)>> \o split(SubSeq(s, k + 1, Len(s)), sep)
    ELSE <<s>>

\* the for loop over the split ids: the paths probed and whether the assert
\* failed; the loop stops at the first failing assert
RECURSIVE check_loop(_, _, _)
check_loop(ds, st, probed) ==
    IF ds = <<>> THEN [raised |-> FALSE, probed |-> probed]
    ELSE LET d_file == h5_path(Head(ds))
         IN IF file_exists(st, d_file)
            THEN check_loop(Tail(ds), st, Append(probed, d_file))
            ELSE [raised |-> TRUE, probed |-> Append(probed, d_file)]

\* variant: only the first id of the list is looked for
check_dependencies_first(dependencies, st) ==
    IF dependencies.kind = "None" \/ dependencies.kind = "NaN"
    THEN [raised |-> FALSE, probed |-> <<>>]
    ELSE check_loop(<<Head(split(dependencies.s, ","))>>, st, <<>>)

\* check_dependencies(dependencies): returns at once for None and NaN
\* (dependencies != dependencies), else asserts every split id exists
check_dependencies(dependencies, st) ==
    IF dependencies.kind = "None" \/ dependencies.kind = "NaN"
    THEN [raised |-> FALSE, probed |-> <<>>]
    ELSE check_loop(split(dependencies.s, ","), st, <<>>)

(* ---------------- the mutation-matrix processors ---------------- *)

\* minimum mutation frequency for depmap_damaging() and depmap_hotspot()
MIN_COUNT_CUTOFF == 4

\* Python values of the hotspot flag cells: the bools, and the str "True"
\* that a bool becomes under astype(str)
PyTrue == "True"
PyFalse == "False"
PyStrTrue == "'True'"

Genes == <<(<<"A">>), (<<"B">>)>>
Samples == <<(<<"1">>), (<<"2">>)>>

\* the other cells of a mutation row
Kinds ==
    << [Variant_annotation |-> "damaging",
        isCOSMIChotspot |-> PyStrTrue, isTCGAhotspot |-> PyFalse],
       [Variant_annotation |-> "silent",
        isCOSMIChotspot |-> PyTrue, isTCGAhotspot |-> PyFalse],
       [Variant_annotation |-> "other non-conserving",
        isCOSMIChotspot |-> PyFalse, isTCGAhotspot |-> PyTrue] >>

RowCodes == 1..(Len(Genes) * Len(Samples) * Len(Kinds))

\* the mutation row with code c; codes order rows by gene, sample, kind
MutationRow(c) ==
    LET k == ((c - 1) % Len(Kinds)) + 1
        s == (((c - 1) \div Len(Kinds)) % Len(Samples)) + 1
        g == ((c - 1) \div (Len(Kinds) * Len(Samples))) + 1
    IN [Hugo_Symbol |-> Genes[g], DepMap_ID |-> Samples[s],
        Variant_annotation |-> Kinds[k].Variant_annotation,
        isCOSMIChotspot |-> Kinds[k].isCOSMIChotspot,
        isTCGAhotspot |-> Kinds[k].isTCGAhotspot]

\* the code of a mutation row
RowCode(r) == CHOOSE c \in RowCodes : MutationRow(c) = r

NoMatrix == [index |-> {}, columns |-> {}, data |-> <<>>]

\* collections.Counter over a column: label -> number of cells holding it
Counter(column) ==
    [x \in {column[k] : k \in 1..Len(column)} |->
        Cardinality({k \in 1..Len(column) : column[k] = x})]

\* df["Hugo_Symbol"]
Hugo_Symbol(rows) == [k \in 1..Len(rows) |-> rows[k].Hugo_Symbol]

\* variant: a gene must occur more often than the cutoff
frequent_strict(rows) ==
    LET mut_counts == Counter(Hugo_Symbol(rows))
    IN SelectSeq(rows, LAMBDA r : mut_counts[r.Hugo_Symbol] > MIN_COUNT_CUTOFF)

\* "exclude rarely damaged genes": count the rows of each gene in the table
\* at hand and keep the rows whose gene has at least MIN_COUNT_CUTOFF
frequent(rows) ==
    LET mut_counts == Counter(Hugo_Symbol(rows))
    IN SelectSeq(rows, LAMBDA r : mut_counts[r.Hugo_Symbol] >= MIN_COUNT_CUTOFF)

\* df["Hugo_Symbol"] + "_" + df["DepMap_ID"]
row_id(r) == r.Hugo_Symbol \o <<"_">> \o r.DepMap_ID

\* df.drop_duplicates(subset=["id"], keep="first")
RECURSIVE drop_duplicates(_, _)
drop_duplicates(rows, seen) ==
    IF rows = <<>> THEN <<>>
    ELSE IF row_id(Head(rows)) \in seen
         THEN drop_duplicates(Tail(rows), seen)
         ELSE <<Head(rows)>> \o
              drop_duplicates(Tail(rows), seen \cup {row_id(Head(rows))})

RECURSIVE SumValues(_)
SumValues(vs) == IF vs = <<>> THEN 0 ELSE Head(vs) + SumValues(Tail(vs))

\* variant: cells without a row are filled with 1
pivot_fill_one(rows) ==
    LET index == {rows[k].DepMap_ID : k \in 1..Len(rows)}
        columns == {rows[k].Hugo_Symbol : k \in 1..Len(rows)}
    IN [index |-> index, columns |-> columns,
        data |-> [c \in index \X columns |-> TRUE]]

\* df["value"] = 1; pd.pivot_table(df, values="value", index=["DepMap_ID"],
\* columns="Hugo_Symbol", fill_value=0) with the default mean of a cell's
\* values; .astype(bool)
pivot_table(rows) ==
    LET index == {rows[k].DepMap_ID : k \in 1..Len(rows)}
        columns == {rows[k].Hugo_Symbol : k \in 1..Len(rows)}
        value == 1
        cell(s, g) ==
            LET at == SelectSeq(rows, LAMBDA r : r.DepMap_ID = s /\ r.Hugo_Symbol = g)
                vs == [k \in 1..Len(at) |-> value]
            IN IF vs = <<>> THEN 0 ELSE SumValues(vs) \div Len(vs)
    IN [index |-> index, columns |-> columns,
        data |-> [c \in index \X columns |-> cell(c[1], c[2]) # 0]]

\* df[df["Variant_annotation"] == "damaging"]
damaging_rows(table) ==
    SelectSeq(table, LAMBDA r : r.Variant_annotation = "damaging")

\* df[(df["isCOSMIChotspot"] == True) | (df["isTCGAhotspot"] == True)]
hotspot_rows(table) ==
    SelectSeq(table, LAMBDA r : r.isCOSMIChotspot = PyTrue \/ r.isTCGAhotspot = PyTrue)

depmap_damaging(table) ==
    pivot_table(drop_duplicates(frequent(damaging_rows(table)), {}))

depmap_hotspot(table) ==
    pivot_table(drop_duplicates(frequent(hotspot_rows(table)), {}))

(* ---------------- identifier remapping ---------------- *)

\* the identifiers in the key column and in the value column of a processed
\* dependency table, and on the axis of a raw table; all are str
SourceIds == {<<"x">>, <<"y">>, <<"z">>}
CanonicalIds == {<<"1">>, <<"2">>}

NotRelabelled == [by |-> "none", out |-> <<>>]

\* dict(zip(keys, values)): a key that occurs twice keeps its last value
dict_zip(rows) ==
    [k \in {rows[n].key : n \in 1..Len(rows)} |->
        LET last == CHOOSE n \in 1..Len(rows) :
                        rows[n].key = k /\ \A m \in (n + 1)..Len(rows) : rows[m].key # k
        IN Str(rows[last].value)]

\* variant: d.get(x, x), a label without entry is left as it is
dict_get_self(d, x) == IF x \in DOMAIN d THEN d[x] ELSE Str(x)

\* d.get(x): the value of the key, None for a label that is no key
dict_get(d, x) == IF x \in DOMAIN d THEN d[x] ELSE None

\* str(v), as astype(str) and an f-string format a value
py_str(v) == IF v.kind = "str" THEN v.s ELSE <<v.kind>>

\* Index.astype(str)
astype_str(axis) == [k \in 1..Len(axis) |-> Str(py_str(axis[k]))]

\* drive: df.columns = map(ccle_to_depmap.get, df.columns), then
\* df.columns = df.columns.astype(str)
drive_columns(table, axis) ==
    LET ccle_to_depmap == dict_zip(table)
    IN astype_str([k \in 1..Len(axis) |-> dict_get(ccle_to_depmap, axis[k])])

\* ccle_gene_tpm: df.index.map(lambda x: f"{gene_name_map.get(x)}_{x}"); get
\* does not call the default factory of the defaultdict
ccle_gene_names(table, axis) ==
    LET gene_name_map == dict_zip(table)
    IN [k \in 1..Len(axis) |->
           Str(py_str(dict_get(gene_name_map, axis[k])) \o <<"_">> \o axis[k])]

\* ccle_gene_tpm: df.index = df.index.map(ccle_to_depmap.get)
ccle_sample_ids(table, axis) ==
    LET ccle_to_depmap == dict_zip(table)
    IN [k \in 1..Len(axis) |-> dict_get(ccle_to_depmap, axis[k])]

(* ---------------- the runner ---------------- *)

\* getattr(Processors, file["id"], None)
getattr(catalog, id) == IF id \in catalog THEN id ELSE <<"None">>

Pass(outcome, exc, st, probed) ==
    [outcome |-> outcome, raised |-> exc, store |-> st, probed |-> probed]

\* variant: dependencies are checked before the handler is looked up
body_check_first(file, catalog, st) ==
    IF file.type \in {"primary_dataset", "secondary_dataset"}
    THEN IF file_exists(st, h5_path(file.id))
         THEN Pass("skipped", "none", st, <<>>)
         ELSE LET chk == check_dependencies(file.dependencies, st)
              IN IF chk.raised
                 THEN Pass("AssertionError", "AssertionError", st, chk.probed)
                 ELSE IF getattr(catalog, file.id) # <<"None">>
                      THEN Pass("processed", "none", export_hdf(st, file.id), chk.probed)
                      ELSE Pass("no_handler", "none", st, chk.probed)
    ELSE Pass("not_dataset", "none", st, <<>>)

\* variant: the handler is called without the dependency check
body_no_check(file, catalog, st) ==
    IF file.type \in {"primary_dataset", "secondary_dataset"}
    THEN IF file_exists(st, h5_path(file.id))
         THEN Pass("skipped", "none", st, <<>>)
         ELSE IF getattr(catalog, file.id) # <<"None">>
              THEN Pass("processed", "none", export_hdf(st, file.id), <<>>)
              ELSE Pass("no_handler", "none", st, <<>>)
    ELSE Pass("not_dataset", "none", st, <<>>)

\* variant: an artifact already on disk does not stop the processing
body_no_skip(file, catalog, st) ==
    IF file.type \in {"primary_dataset", "secondary_dataset"}
    THEN IF getattr(catalog, file.id) # <<"None">>
         THEN LET chk == check_dependencies(file.dependencies, st)
              IN IF chk.raised
                 THEN Pass("AssertionError", "AssertionError", st, chk.probed)
                 ELSE Pass("processed", "none", export_hdf(st, file.id), chk.probed)
         ELSE Pass("no_handler", "none", st, <<>>)
    ELSE Pass("not_dataset", "none", st, <<>>)

\* variant: getattr without a default, a missing handler raises
body_no_default(file, catalog, st) ==
    IF file.type \in {"primary_dataset", "secondary_dataset"}
    THEN IF file_exists(st, h5_path(file.id))
         THEN Pass("skipped", "none", st, <<>>)
         ELSE IF getattr(catalog, file.id) # <<"None">>
              THEN LET chk == check_dependencies(file.dependencies, st)
                   IN IF chk.raised
                      THEN Pass("AssertionError", "AssertionError", st, chk.probed)
                      ELSE Pass("processed", "none", export_hdf(st, file.id), chk.probed)
              ELSE Pass("AttributeError", "AttributeError", st, <<>>)
    ELSE Pass("not_dataset", "none", st, <<>>)

\* One pass of the body of the for loop over SCHEMA.iterrows() for the row
\* `file`: what happened, the exception raised, the store afterwards and the
\* dependency paths probed.  A handler ends with export_hdf(output_id, df).
body(file, catalog, st) ==
    IF file.type \in {"primary_dataset", "secondary_dataset"}
    THEN LET output_path == h5_path(file.id)
         IN IF file_exists(st, output_path)
            THEN Pass("skipped", "none", st, <<>>)
            ELSE LET handler == getattr(catalog, file.id)
                 IN IF handler # <<"None">>
                    THEN LET chk == check_dependencies(file.dependencies, st)
                         IN IF chk.raised
                            THEN Pass("AssertionError", "AssertionError", st, chk.probed)
                            ELSE Pass("processed", "none",
                                      export_hdf(st, file.id), chk.probed)
                    ELSE Pass("no_handler", "none", st, <<>>)
    ELSE Pass("not_dataset", "none", st, <<>>)

\* variant: the exception is swallowed and the loop goes on
Running_swallow(exc, pos, schema) == pos < Len(schema)

\* the for loop goes on while no exception has left it and rows remain
Running(exc, pos, schema) == exc = "none" /\ pos < Len(schema)

Init ==
    /\ SCHEMA \in SeqsUpTo(Rows, MaxSchemaLen)
    /\ Processors \in SUBSET Ids
    /\ \E present \in SUBSET {h5_path(d) : d \in Ids} :
           store = [p \in Paths |-> IF p \in present THEN 1 ELSE 0]
    /\ run = 1
    /\ i = 0
    /\ raised = "none"
    /\ log = <<>>
    /\ left = store
    /\ df = <<>>
    /\ processor = "none"
    /\ mut_mat = NoMatrix
    /\ annotations = <<>>
    /\ labels = <<>>
    /\ relabelled = NotRelabelled

\* iterrows() hands out the next row, then the loop body runs on it
Iterate ==
    /\ Running(raised, i, SCHEMA)
    /\ LET file == SCHEMA[i + 1]
           r == body(file, Processors, store)
       IN /\ i' = i + 1
          /\ store' = r.store
          /\ raised' = r.raised
          /\ log' = Append(log, [run |-> run, row |-> i + 1, outcome |-> r.outcome,
                                 before |-> store, probed |-> r.probed,
                                 wrote |-> {p \in Paths : r.store[p] # store[p]}])
    /\ UNCHANGED <<SCHEMA, Processors, run, left, matrix_vars, remap_vars>>

\* the script is started again on the store the previous run left
Rerun ==
    /\ ~Running(raised, i, SCHEMA)
    /\ run < MaxRuns
    /\ run' = run + 1
    /\ i' = 0
    /\ raised' = "none"
    /\ left' = store
    /\ UNCHANGED <<SCHEMA, Processors, store, log, matrix_vars, remap_vars>>

Next == Iterate \/ Rerun

Spec == Init /\ [][Next]_vars

\* the depmap_mutations table is empty at first and nothing else is looked at
InitMatrix ==
    /\ SCHEMA = <<>>
    /\ Processors = {}
    /\ store = [p \in Paths |-> 0]
    /\ run = 1
    /\ i = 0
    /\ raised = "none"
    /\ log = <<>>
    /\ left = store
    /\ df = <<>>
    /\ processor = "none"
    /\ mut_mat = NoMatrix
    /\ annotations = <<>>
    /\ labels = <<>>
    /\ relabelled = NotRelabelled

\* one more row of the mutation table; the tables explored list their rows
\* ordered by gene, sample and kind
LoadRow ==
    /\ processor = "none"
    /\ Len(df) < MaxRows
    /\ \E c \in {d \in RowCodes : IF df = <<>> THEN TRUE ELSE d >= RowCode(df[Len(df)])} :
           df' = Append(df, MutationRow(c))
    /\ UNCHANGED <<runner_vars, processor, mut_mat, remap_vars>>

Damaging ==
    /\ processor = "none"
    /\ processor' = "depmap_damaging"
    /\ mut_mat' = depmap_damaging(df)
    /\ UNCHANGED <<runner_vars, df, remap_vars>>

Hotspot ==
    /\ processor = "none"
    /\ processor' = "depmap_hotspot"
    /\ mut_mat' = depmap_hotspot(df)
    /\ UNCHANGED <<runner_vars, df, remap_vars>>

NextMatrix == LoadRow \/ Damaging \/ Hotspot

SpecMatrix == InitMatrix /\ [][NextMatrix]_vars

\* a dependency table is in the store and a raw table has been read
InitRemap ==
    /\ SCHEMA = <<>>
    /\ Processors = {}
    /\ store = [p \in Paths |-> 0]
    /\ run = 1
    /\ i = 0
    /\ raised = "none"
    /\ log = <<>>
    /\ left = store
    /\ df = <<>>
    /\ processor = "none"
    /\ mut_mat = NoMatrix
    /\ annotations \in SeqsUpTo([key : SourceIds, value : CanonicalIds], MaxAnnotations)
    /\ labels \in SeqsUpTo(SourceIds, MaxLabels)
    /\ relabelled = NotRelabelled

\* drive relabels its columns by CCLE_Name -> depmap id
Drive ==
    /\ relabelled.by = "none"
    /\ relabelled' = [by |-> "drive", out |-> drive_columns(annotations, labels)]
    /\ UNCHANGED <<runner_vars, matrix_vars, annotations, labels>>

\* ccle_gene_tpm relabels its genes by gene_id -> gene_name
CcleGeneNames ==
    /\ relabelled.by = "none"
    /\ relabelled' = [by |-> "ccle_gene_tpm genes",
                      out |-> ccle_gene_names(annotations, labels)]
    /\ UNCHANGED <<runner_vars, matrix_vars, annotations, labels>>

\* ccle_gene_tpm relabels its samples by CCLE_ID -> depMapID
CcleSampleIds ==
    /\ relabelled.by = "none"
    /\ relabelled' = [by |-> "ccle_gene_tpm samples",
                      out |-> ccle_sample_ids(annotations, labels)]
    /\ UNCHANGED <<runner_vars, matrix_vars, annotations, labels>>

NextRemap == Drive \/ CcleGeneNames \/ CcleSampleIds

SpecRemap == InitRemap /\ [][NextRemap]_vars

(* ---------------- vocabulary of the properties ---------------- *)

Materializable(file) == file.type \in {"primary_dataset", "secondary_dataset"}

\* the dataset ids a dependencies cell names: the non-empty stretches of the
\* string between commas; none for None and NaN
DeclaredIdsOf ==
    [cell \in DependencyCells |->
        IF cell.kind # "str" THEN {}
        ELSE LET s == cell.s
             IN {SubSeq(s, ab[1], ab[2]) : ab \in
                   {ab \in (1..Len(s)) \X (1..Len(s)) :
                      /\ ab[1] <= ab[2]
                      /\ \A k \in ab[1]..ab[2] : s[k] # ","
                      /\ (ab[1] = 1 \/ s[ab[1] - 1] = ",")
                      /\ (ab[2] = Len(s) \/ s[ab[2] + 1] = ",")}}]

DeclaredIds(cell) == DeclaredIdsOf[cell]

Present(st, id) == h5_path(id) \in DOMAIN st /\ st[h5_path(id)] > 0

MissingDeps(file, st) == {d \in DeclaredIds(file.dependencies) : ~Present(st, d)}

Events == {log[k] : k \in 1..Len(log)}

RowOf(e) == SCHEMA[e.row]

\* the pass is over a dataset row whose own artifact is not there yet
Pending(e) == Materializable(RowOf(e)) /\ ~Present(e.before, RowOf(e).id)

(* ---------------- C1 ---------------- *)

\* C1: the transform of a descriptor is never invoked while the artifact of
\* any id of its dependency list is absent; where one is absent and the
\* transform would have run, the pass ends in the assertion error and leaves
\* the store as it was.
C1_DependencyEnforcement ==
    \A e \in Events :
        /\ e.outcome = "processed" => MissingDeps(RowOf(e), e.before) = {}
        /\ (Pending(e) /\ RowOf(e).id \in Processors
              /\ MissingDeps(RowOf(e), e.before) # {})
             => e.outcome = "AssertionError" /\ e.wrote = {}

\* a descriptor with a transform and two declared dependencies, the second
\* of which is absent, was reached
C1_Witness ==
    \E e \in Events :
        /\ e.outcome = "AssertionError"
        /\ Cardinality(DeclaredIds(RowOf(e).dependencies)) = 2
        /\ Cardinality(MissingDeps(RowOf(e), e.before)) = 1
        /\ Len(e.probed) = 2

(* ---------------- C2 ---------------- *)

C3_HardStop ==
    /\ \A e \in Events :
          e.outcome = "AssertionError"
             => /\ e.wrote = {}
                /\ ~\E f \in Events : f.run = e.run /\ f.row > e.row
    /\ raised = "AssertionError"
          => /\ Len(log) > 0
             /\ log[Len(log)].outcome = "AssertionError"
             /\ log[Len(log)].run = run /\ log[Len(log)].row = i
             /\ store = log[Len(log)].before

\* the run stopped at a descriptor that is followed by one whose transform
\* exists and could have run
C3_Witness ==
    /\ raised = "AssertionError"
    /\ i < Len(SCHEMA)
    /\ body(SCHEMA[i + 1], Processors, store).outcome = "processed"

(* ---------------- C4 ---------------- *)

C5_SkipMaterialized ==
    /\ \A e \in Events :
          (Materializable(RowOf(e)) /\ Present(e.before, RowOf(e).id))
             => e.outcome = "skipped" /\ e.probed = <<>> /\ e.wrote = {}
    /\ \A e \in Events : \A p \in e.wrote : e.before[p] = 0
    /\ \A p \in DOMAIN store : store[p] <= 1

\* a present artifact was skipped although its transform exists and one of
\* its dependencies is absent
C5_Witness ==
    \E e \in Events :
        /\ e.outcome = "skipped"
        /\ RowOf(e).id \in Processors
        /\ MissingDeps(RowOf(e), e.before) # {}

(* ---------------- C6 ---------------- *)

\* C6: a pending descriptor with all dependencies present and no transform
\* writes nothing, raises nothing, and the loop goes on to the next row.
C6_UnimplementedSkipped ==
    \A k \in 1..Len(log) :
        LET e == log[k]
        IN (Pending(e) /\ RowOf(e).id \notin Processors
              /\ MissingDeps(RowOf(e), e.before) = {})
             => /\ e.outcome = "no_handler"
                /\ e.wrote = {}
                /\ e.row < Len(SCHEMA)
                     => IF k < Len(log)
                        THEN log[k + 1].run = e.run /\ log[k + 1].row = e.row + 1
                        ELSE run = e.run /\ i = e.row /\ raised = "none"
                             /\ Running(raised, i, SCHEMA)
                /\ k = Len(log) /\ run = e.run => raised = "none"

\* an unimplemented descriptor with a present dependency was passed and the
\* loop went on to the next descriptor
C6_Witness ==
    \E k \in 1..(Len(log) - 1) :
        /\ Pending(log[k]) /\ log[k].outcome = "no_handler"
        /\ DeclaredIds(RowOf(log[k]).dependencies) # {}
        /\ MissingDeps(RowOf(log[k]), log[k].before) = {}
        /\ log[k + 1].run = log[k].run
        /\ log[k + 1].row = log[k].row + 1

(* ---------------- C7 ---------------- *)

\* schema = [A without dependencies, B depending on A]
EndToEnd ==
    /\ Len(SCHEMA) >= 2
    /\ Materializable(SCHEMA[1]) /\ SCHEMA[1].dependencies \in {None, NaN}
    /\ Materializable(SCHEMA[2]) /\ SCHEMA[2].dependencies = Str(SCHEMA[1].id)
    /\ SCHEMA[2].id # SCHEMA[1].id

\* the passes of run r over row k
PassesAt(r, k) == {e \in Events : e.run = r /\ e.row = k}

C8_EmptyMeansNone ==
    \A e \in Events :
        (Pending(e) /\ RowOf(e).id \in Processors
           /\ RowOf(e).dependencies \in {None, NaN, Str(<<>>)})
          => e.probed = <<>> /\ e.outcome = "processed"

(* ---------------- C9 ---------------- *)

\* the rows of the loaded table that belong to the category of processor p
InCategory(p, r) ==
    IF p = "depmap_damaging"
    THEN r.Variant_annotation = "damaging"
    ELSE r.isCOSMIChotspot = PyTrue \/ r.isTCGAhotspot = PyTrue

GenesOf(table) == {table[k].Hugo_Symbol : k \in 1..Len(table)}

\* rows of gene g in the whole table
CountAll(g) == Cardinality({k \in 1..Len(df) : df[k].Hugo_Symbol = g})

\* rows of gene g in the category of processor p
CountIn(p, g) ==
    Cardinality({k \in 1..Len(df) : df[k].Hugo_Symbol = g /\ InCategory(p, df[k])})

\* C9 as stated: the columns are the genes with a row in the category whose
\* count over the whole, unfiltered table is at least 4.
C9_CountOverFullTable ==
    processor # "none" =>
        mut_mat.columns =
            {g \in GenesOf(df) : CountIn(processor, g) >= 1 /\ CountAll(g) >= 4}

\* C9 amended: the columns are the genes whose count over the rows of the
\* selected category is at least 4 (3 such rows: excluded, 4: kept).
C9_CountOverCategory ==
    processor # "none" =>
        /\ mut_mat.columns = {g \in GenesOf(df) : CountIn(processor, g) >= 4}
        /\ \A g \in GenesOf(df) :
              /\ CountIn(processor, g) = 3 => g \notin mut_mat.columns
              /\ CountIn(processor, g) = 4 => g \in mut_mat.columns

\* one gene with exactly 4 rows in the category is kept while another with
\* 3 rows in it, and 4 in the whole table, is excluded
C9_Witness ==
    /\ processor # "none"
    /\ \E g, h \in GenesOf(df) :
          /\ CountIn(processor, g) = 4 /\ g \in mut_mat.columns
          /\ CountIn(processor, h) = 3 /\ CountAll(h) = 4
          /\ h \notin mut_mat.columns

(* ---------------- C10 ---------------- *)

\* C10: every entry of the matrix is a boolean, True exactly when the rows of
\* the category hold at least one row of that gene and sample, however many.
C10_Entries ==
    processor # "none" =>
        /\ DOMAIN mut_mat.data = mut_mat.index \X mut_mat.columns
        /\ \A s \in mut_mat.index : \A g \in mut_mat.columns :
              /\ mut_mat.data[<<s, g>>] \in BOOLEAN
              /\ mut_mat.data[<<s, g>>] <=>
                   \E k \in 1..Len(df) :
                       /\ InCategory(processor, df[k])
                       /\ df[k].Hugo_Symbol = g /\ df[k].DepMap_ID = s

\* a matrix with an entry made True by duplicate rows and a False entry
C10_Witness ==
    /\ processor # "none"
    /\ \E s, t \in mut_mat.index : \E g \in mut_mat.columns :
          /\ mut_mat.data[<<s, g>>] = TRUE
          /\ Cardinality({k \in 1..Len(df) :
                 /\ InCategory(processor, df[k])
                 /\ df[k].Hugo_Symbol = g /\ df[k].DepMap_ID = s}) >= 2
          /\ mut_mat.data[<<t, g>>] = FALSE

(* ---------------- C11 ---------------- *)

\* label x is a key of the map built from the dependency table
IsKey(x) == \E n \in 1..Len(annotations) : annotations[n].key = x

\* the value the map holds for key x: that of the last row with this key
Mapped(x) ==
    LET n == CHOOSE n \in 1..Len(annotations) :
                 /\ annotations[n].key = x
                 /\ ~\E m \in 1..Len(annotations) : m > n /\ annotations[m].key = x
    IN annotations[n].value

\* C11 as stated: on every relabelled axis a key label becomes its mapped
\* value and any other label becomes the missing-value sentinel.
C11_UnmappedIsSentinel ==
    relabelled.by # "none" =>
        /\ Len(relabelled.out) = Len(labels)
        /\ \A k \in 1..Len(labels) :
              relabelled.out[k] =
                  IF IsKey(labels[k]) THEN Str(Mapped(labels[k])) ELSE None

\* C11 amended: no relabelling raises; on the sample axis of ccle_gene_tpm a
\* key label becomes its mapped value and any other label the sentinel None;
\* on the columns of drive, cast to str afterwards, any other label becomes
\* the string "None"; on the gene axis of ccle_gene_tpm a label x becomes
\* "<mapped value>_x", and "None_x" when it is no key.
C11_Remapping ==
    relabelled.by # "none" =>
        /\ Len(relabelled.out) = Len(labels)
        /\ \A k \in 1..Len(labels) :
              LET x == labels[k]
                  out == relabelled.out[k]
              IN /\ relabelled.by = "ccle_gene_tpm samples" =>
                       out = IF IsKey(x) THEN Str(Mapped(x)) ELSE None
                 /\ relabelled.by = "drive" =>
                       out = IF IsKey(x) THEN Str(Mapped(x)) ELSE Str(<<"None">>)
                 /\ relabelled.by = "ccle_gene_tpm genes" =>
                       out = IF IsKey(x) THEN Str(Mapped(x) \o <<"_">> \o x)
                             ELSE Str(<<"None", "_">> \o x)

\* the sample axis held a key that two rows of the table map, and a label
\* that is no key
C11_Witness ==
    /\ relabelled.by = "ccle_gene_tpm samples"
    /\ \E j, k \in 1..Len(labels) :
          /\ IsKey(labels[j]) /\ relabelled.out[j] = Str(Mapped(labels[j]))
          /\ Cardinality({n \in 1..Len(annotations) :
                             annotations[n].key = labels[j]}) = 2
          /\ annotations[1].value # annotations[2].value
          /\ ~IsKey(labels[k]) /\ relabelled.out[k] = None

(* ---------------- C12 ---------------- *)

\* row j is a consumer with a transform, row k after it is its producer, and
\* no earlier row carries the id of either
ConsumerFirst(j, k) ==
    /\ j < k
    /\ Materializable(SCHEMA[j]) /\ SCHEMA[j].id \in Processors
    /\ Materializable(SCHEMA[k])
    /\ SCHEMA[k].id \in DeclaredIds(SCHEMA[j].dependencies)
    /\ SCHEMA[k].id # SCHEMA[j].id
    /\ \A m \in 1..(j - 1) : SCHEMA[m].id \notin {SCHEMA[j].id, SCHEMA[k].id}

\* the artifacts of neither row j nor row k exist when run r starts
NeitherAtStart(r, j, k) ==
    \E e \in PassesAt(r, 1) :
        ~Present(e.before, SCHEMA[j].id) /\ ~Present(e.before, SCHEMA[k].id)

====
